---- MODULE Spec2Model ----
(***************************************************************************)
(* Session lifecycle and message-dispatch engine of AzusaBot: the command  *)
(* registry with its hot reload, the message dispatcher with its dedup     *)
(* cache, and the connection manager with its reconnect backoff.           *)
(* Strings that the code inspects character by character (message bodies,  *)
(* prefixes, command keys) are sequences of one-character strings.          *)
(***************************************************************************)
EXTENDS Integers, Sequences, FiniteSets, TLC

(* ------------------------------ bounds --------------------------------- *)
MaxMsgs == 4
MaxRegBatches == 1
MaxEdits == 2
MaxNotifies == 1
MaxExpiries == 1
MaxSockets == 11
MaxRedeliveries == 1
MaxSetupFailures == 1
MaxEventBatches == 1
MaxWatchFaults == 2

(* --------------------------- configuration ----------------------------- *)
\* config.command.prefixes of config-example.js, in configured order
Prefixes == << <<"/">>, <<"!">>, <<".">> >>

\* prefix lists in which one entry is a prefix of another, in both orders
PrefixConfigs ==
    { Prefixes,
      << <<"!">>, <<"!", "!">> >>,
      << <<"!", "!">>, <<"!">> >>,
      << <<"/">>, <<"/", "!">>, <<"!">> >> }

VARIABLE prefixes            \* config.command.prefixes of the running process

\* the .js files of the commands directory, in readdirSync order
Files == <<"ig.js", "menu.js">>

FileSet == {Files[k] : k \in 1..Len(Files)}

\* the default export of each definition unit when its file is well formed
UnitDef(f) ==
    IF f = "ig.js"
    THEN [name |-> <<"i", "g">>,
          aliases |-> << <<"i", "n", "s", "t", "a", "g", "r", "a", "m">>,
                         <<"i", "g", "d", "l">> >>]
    ELSE [name |-> <<"h", "e", "l", "p", "2">>,
          aliases |-> << <<"m", "e", "n", "u", "2">>,
                         <<"c", "o", "m", "m", "a", "n", "d", "s", "2">> >>]

\* the default export of each unit once it was rewritten to claim a key of the
\* other unit: ig.js takes the alias menu2, menu.js takes the alias ig
ClashDef(f) ==
    IF f = "ig.js"
    THEN [name |-> <<"i", "g">>,
          aliases |-> << <<"i", "n", "s", "t", "a", "g", "r", "a", "m">>,
                         <<"m", "e", "n", "u", "2">> >>]
    ELSE [name |-> <<"h", "e", "l", "p", "2">>,
          aliases |-> << <<"m", "e", "n", "u", "2">>,
                         <<"i", "g">> >>]

\* the default export of each unit once one of its aliases was rewritten in
\* upper case
UpperDef(f) ==
    IF f = "ig.js"
    THEN [name |-> <<"i", "g">>,
          aliases |-> << <<"i", "n", "s", "t", "a", "g", "r", "a", "m">>,
                         <<"I", "G", "D", "L">> >>]
    ELSE [name |-> <<"h", "e", "l", "p", "2">>,
          aliases |-> << <<"M", "e", "n", "u", "2">>,
                         <<"c", "o", "m", "m", "a", "n", "d", "s", "2">> >>]

\* what a handler may do when it is executed: return, raise, or (ig.js) send
\* its own error message to the chat and then raise
HandlerOutcomes(f) ==
    IF f = "ig.js" THEN {"ok", "notify_throw"} ELSE {"ok", "throw"}

\* contents a file of the commands directory can have
Contents == {"good", "invalid", "broken", "absent"}

\* the same with the rewritten units
ClashContents == Contents \cup {"clash", "upper"}

\* command.default of file f whose content is c
unitOf(f, c) ==
    IF c = "clash" THEN ClashDef(f)
    ELSE IF c = "upper" THEN UpperDef(f)
    ELSE UnitDef(f)

NoHandler == [unit |-> "undefined"]
NoPrefix == <<"undefined">>
EmptyMap == [k \in {} |-> NoHandler]

(* ------------------------------ strings -------------------------------- *)
WhiteSpace == {" ", "\t", "\n"}

\* the letters that occur in the bodies, upper case -> lower case
LowerOf == [c \in {"D", "E", "G", "H", "I", "L", "M", "N", "P", "U", "X"} |->
              CASE c = "D" -> "d" [] c = "E" -> "e" [] c = "G" -> "g" [] c = "H" -> "h"
                [] c = "I" -> "i" [] c = "L" -> "l" [] c = "M" -> "m" [] c = "N" -> "n"
                [] c = "P" -> "p" [] c = "U" -> "u" [] c = "X" -> "x"]

Lower(c) == IF c \in DOMAIN LowerOf THEN LowerOf[c] ELSE c

toLowerCaseIdentity(s) == s

toLowerCase(s) == [k \in 1..Len(s) |-> Lower(s[k])]

startsWith(s, p) == Len(p) <= Len(s) /\ SubSeq(s, 1, Len(p)) = p

RECURSIVE trimStart(_)
trimStart(s) ==
    IF s # <<>> /\ Head(s) \in WhiteSpace THEN trimStart(Tail(s)) ELSE s

RECURSIVE trimEnd(_)
trimEnd(s) ==
    IF s # <<>> /\ s[Len(s)] \in WhiteSpace
    THEN trimEnd(SubSeq(s, 1, Len(s) - 1))
    ELSE s

trim(s) == trimEnd(trimStart(s))

\* String.prototype.split(/ +/): every maximal run of spaces is one separator
RECURSIVE splitFrom(_, _, _, _)
splitFrom(s, k, cur, inRun) ==
    IF k > Len(s) THEN << cur >>
    ELSE IF s[k] = " "
         THEN IF inRun THEN splitFrom(s, k + 1, cur, TRUE)
              ELSE << cur >> \o splitFrom(s, k + 1, <<>>, TRUE)
         ELSE splitFrom(s, k + 1, Append(cur, s[k]), FALSE)

splitSpaces(s) == splitFrom(s, 1, <<>>, FALSE)

\* a find that returns the last entry the body starts with
RECURSIVE findLastPrefixFrom(_, _)
findLastPrefixFrom(body, k) ==
    IF k > Len(prefixes) THEN NoPrefix
    ELSE IF findLastPrefixFrom(body, k + 1) # NoPrefix
         THEN findLastPrefixFrom(body, k + 1)
         ELSE IF startsWith(body, prefixes[k]) THEN prefixes[k] ELSE NoPrefix

\* prefixes.find(p => body.startsWith(p))
RECURSIVE findPrefixFrom(_, _)
findPrefixFrom(body, k) ==
    IF k > Len(prefixes) THEN NoPrefix
    ELSE IF startsWith(body, prefixes[k]) THEN prefixes[k]
         ELSE findPrefixFrom(body, k + 1)

usedPrefix(body) == findPrefixFrom(body, 1)

\* if (usedPrefix): an undefined or empty prefix is falsy
prefixTruthy(p) == p # NoPrefix /\ p # <<>>

parseArgs(body) ==
    splitSpaces(trim(SubSeq(body, Len(usedPrefix(body)) + 1, Len(body))))

parseCommand(body) == toLowerCase(Head(parseArgs(body)))

(* ------------------------------- state --------------------------------- *)
VARIABLES
    commands,                \* the registry: key -> handler (the Map `commands`)
    dirState,                \* commands directory: "ok", "missing", "unreadable"
    dirFiles,                \* file -> content of the file
    processingFiles,         \* the watcher's Set of file names being reloaded
    reloadTimers,            \* file -> number of its pending 500 ms debounce timers
    loads,                   \* file -> the loadCommands call its timer started
    edits,                   \* directory changes made so far
    notifies,                \* repeated change notifications delivered so far
    lastReload,              \* outcome of the last reload that swapped the registry
    watcher,                 \* the fs.watch watcher: "active", or "restarting" in 5 s
    watchFaults,             \* watcher faults so far
    processedMessagesCache,  \* ids held by the dedup cache
    expired,                 \* ids the cache has dropped after their TTL
    batches,                 \* the event batches handed to the ev.process handler
    execLog,                 \* handler invocations, in the order they were made
    groupCache,              \* group ids whose metadata the groupCache holds
    reconnectAttempts,       \* let reconnectAttempts
    sockConnecting,          \* sockets created and not yet open or closed
    sockOpen,                \* sockets that are open
    socketsCreated,          \* makeWASocket calls made so far
    redelivered,             \* close events the transport has delivered again
    reconnectTimers,         \* pending setTimeout(connectToWhatsApp, delay)
    connSetup,               \* connectToWhatsApp calls awaiting their auth state
    connRetry,               \* connectToWhatsApp calls in their 5 s wait before retrying
    setupFailures,           \* fatal setup errors so far
    storeIntervals,          \* active setInterval store-snapshot timers
    sessionFiles,            \* files of the session folder (the credential store)
    removals,                \* removeCreds calls: their position and files left
    delays,                  \* reconnect delays scheduled since the last open
    lastConn,                \* the last connection update that was handled
    exited,                  \* "no", or the path that called process.exit
    storeFile                \* store.json: "current", or "stale" against the store in memory

regVars == <<commands, dirState, dirFiles, processingFiles, reloadTimers, loads,
             edits, notifies, lastReload, watcher, watchFaults, prefixes>>

dispVars == <<processedMessagesCache, expired, batches, execLog, groupCache>>

connVars == <<reconnectAttempts, sockConnecting, sockOpen, socketsCreated, redelivered,
              reconnectTimers, connSetup, connRetry, setupFailures, storeIntervals,
              sessionFiles, removals, delays, lastConn, exited>>

\* process.exit has not been called
Running == exited = "no"

(* --------------------------- command loader ---------------------------- *)
Handler(f) == [unit |-> f]

\* a set that keeps the value a key already has
PutKeyFirstWins(m, k, v) ==
    [x \in (DOMAIN m) \cup {k} |-> IF x \in DOMAIN m THEN m[x] ELSE v]

\* Map.prototype.set
PutKey(m, k, v) == [x \in (DOMAIN m) \cup {k} |-> IF x = k THEN v ELSE m[x]]

\* command.default.aliases.forEach(alias => commands.set(alias, command.default))
RECURSIVE putAliases(_, _, _)
putAliases(m, as, h) ==
    IF as = <<>> THEN m ELSE putAliases(PutKey(m, Head(as), h), Tail(as), h)

\* the keys a definition unit registers: its name and its aliases
unitKeys(f) == {UnitDef(f).name} \cup
               {UnitDef(f).aliases[k] : k \in 1..Len(UnitDef(f).aliases)}

\* the keys the unit of file f registers when its content is c
unitKeysOf(f, c) == {unitOf(f, c).name} \cup
                    {unitOf(f, c).aliases[k] : k \in 1..Len(unitOf(f, c).aliases)}

\* one iteration of the import loop for file f whose content is c
validUnit(c) == c \in {"good", "clash", "upper"}

addUnitAborting(m, f, c) ==
    IF validUnit(c)
    THEN putAliases(PutKey(m, unitOf(f, c).name, Handler(f)),
                    unitOf(f, c).aliases, Handler(f))
    ELSE EmptyMap

addUnit(m, f, c) ==
    IF validUnit(c)
    THEN putAliases(PutKey(m, unitOf(f, c).name, Handler(f)),
                    unitOf(f, c).aliases, Handler(f))
    ELSE m

\* readdirSync(...).filter(file => file.endsWith(".js"))
RECURSIVE listFrom(_, _)
listFrom(df, k) ==
    IF k > Len(Files) THEN <<>>
    ELSE IF df[Files[k]] # "absent"
         THEN <<Files[k]>> \o listFrom(df, k + 1)
         ELSE listFrom(df, k + 1)

listFiles(df) == listFrom(df, 1)

RECURSIVE loadAll(_, _, _)
loadAll(m, fs, df) ==
    IF fs = <<>> THEN m ELSE loadAll(addUnit(m, Head(fs), df[Head(fs)]), Tail(fs), df)

NoLoad == [active |-> FALSE]

Max(S) == CHOOSE x \in S : \A y \in S : y <= x

\* the place of a loadCommands call in the order in which the calls start:
\* after the call whose result is installed and after every call still running
nextSeq ==
    1 + Max({lastReload.seq} \cup {loads[f].seq : f \in {g \in FileSet : loads[g].active}})

\* loadCommands up to its first await: directory check, listing, empty map
beginLoad(ds, df) ==
    IF ds = "ok"
    THEN [active |-> TRUE, todo |-> listFiles(df), acc |-> EmptyMap,
          err |-> FALSE, listed |-> Len(listFiles(df)), ok |-> 0,
          valid |-> {}, skipped |-> {}, seq |-> nextSeq]
    ELSE [active |-> TRUE, todo |-> <<>>, acc |-> EmptyMap,
          err |-> TRUE, listed |-> 0, ok |-> 0,
          valid |-> {}, skipped |-> {}, seq |-> nextSeq]

loadFailed(l) == l.err \/ (l.listed > 0 /\ l.ok = 0)

\* the swap made by the debounce callback once loadCommands has returned
swapInto(l, old) == l.acc

\* the await of the watcher's timer callback resumes: swap, then finally
FinishLoad(f, l) ==
    /\ commands' = swapInto(l, commands)
    /\ lastReload' = [failed |-> loadFailed(l), before |-> commands,
                     valid |-> l.valid, skipped |-> l.skipped, seq |-> l.seq]
    /\ processingFiles' = processingFiles \ {f}
    /\ loads' = [loads EXCEPT ![f] = NoLoad]

\* the callback without its processingFiles.has(filename) test
WatchCallbackNoCoalesce(f) ==
    /\ processingFiles' = processingFiles \cup {f}
    /\ reloadTimers' = [reloadTimers EXCEPT ![f] = @ + 1]

\* fs.watch callback for a file name ending in .js
WatchCallback(f) ==
    IF f \in processingFiles
    THEN UNCHANGED <<processingFiles, reloadTimers>>
    ELSE /\ processingFiles' = processingFiles \cup {f}
         /\ reloadTimers' = [reloadTimers EXCEPT ![f] = @ + 1]

\* a definition unit is edited, created or deleted; a watcher that is active
\* is notified
EditFile(f, c) ==
    /\ edits < MaxEdits
    /\ dirState = "ok"
    /\ c # dirFiles[f]
    /\ dirFiles' = [dirFiles EXCEPT ![f] = c]
    /\ edits' = edits + 1
    /\ IF watcher = "active"
       THEN WatchCallback(f)
       ELSE UNCHANGED <<processingFiles, reloadTimers>>
    /\ UNCHANGED <<commands, dirState, loads, notifies, lastReload>>
    /\ UNCHANGED <<watcher, watchFaults, prefixes, dispVars, connVars, storeFile>>

\* the commands directory is removed or becomes unreadable
DirFault(s) ==
    /\ edits < MaxEdits
    /\ dirState = "ok"
    /\ dirState' = s
    /\ dirFiles' = IF s = "missing" THEN [f \in FileSet |-> "absent"] ELSE dirFiles
    /\ edits' = edits + 1
    /\ UNCHANGED <<commands, processingFiles, reloadTimers, loads, notifies, lastReload>>
    /\ UNCHANGED <<watcher, watchFaults, prefixes, dispVars, connVars, storeFile>>

\* fs.watch reports the same change once more
Notify(f) ==
    /\ notifies < MaxNotifies
    /\ edits > 0
    /\ watcher = "active"
    /\ notifies' = notifies + 1
    /\ WatchCallback(f)
    /\ UNCHANGED <<commands, dirState, dirFiles, loads, edits, lastReload>>
    /\ UNCHANGED <<watcher, watchFaults, prefixes, dispVars, connVars, storeFile>>

\* the debounce timer of f fires: loadCommands runs up to its first import
ReloadTimer(f) ==
    /\ reloadTimers[f] > 0
    /\ reloadTimers' = [reloadTimers EXCEPT ![f] = @ - 1]
    /\ LET l == beginLoad(dirState, dirFiles) IN
         /\ dirState' = IF dirState = "missing" THEN "ok" ELSE dirState
         /\ IF l.todo = <<>>
            THEN FinishLoad(f, l)
            ELSE /\ loads' = [loads EXCEPT ![f] = l]
                 /\ UNCHANGED <<commands, lastReload, processingFiles>>
    /\ UNCHANGED <<dirFiles, edits, notifies>>
    /\ UNCHANGED <<watcher, watchFaults, prefixes, dispVars, connVars, storeFile>>

\* an await import(...) of a running load settles
LoadImport(f) ==
    /\ loads[f].active
    /\ LET l == loads[f]
           g == Head(l.todo)
           c == dirFiles[g]
           l2 == [l EXCEPT !.todo = Tail(l.todo),
                           !.acc = addUnit(l.acc, g, c),
                           !.ok = IF validUnit(c) THEN l.ok + 1 ELSE l.ok,
                           !.valid = IF validUnit(c) THEN l.valid \cup {g} ELSE l.valid,
                           !.skipped = IF validUnit(c) THEN l.skipped
                                       ELSE l.skipped \cup {g}]
       IN IF l2.todo = <<>>
          THEN FinishLoad(f, l2)
          ELSE /\ loads' = [loads EXCEPT ![f] = l2]
               /\ UNCHANGED <<commands, lastReload, processingFiles>>
    /\ UNCHANGED <<dirState, dirFiles, reloadTimers, edits, notifies>>
    /\ UNCHANGED <<watcher, watchFaults, prefixes, dispVars, connVars, storeFile>>

\* the watcher emits "error" and delivers nothing from then on; its handler
\* logs the fault and sets the 5 s timer that calls setupCommandWatcher
WatchFaultNoRestart ==
    /\ watcher = "active"
    /\ watchFaults < MaxWatchFaults
    /\ watcher' = "failed"
    /\ watchFaults' = watchFaults + 1
    /\ UNCHANGED <<commands, dirState, dirFiles, processingFiles, reloadTimers, loads,
                   edits, notifies, lastReload>>
    /\ UNCHANGED <<prefixes, dispVars, connVars, storeFile>>

WatchFault ==
    /\ watcher = "active"
    /\ watchFaults < MaxWatchFaults
    /\ watcher' = "restarting"
    /\ watchFaults' = watchFaults + 1
    /\ UNCHANGED <<commands, dirState, dirFiles, processingFiles, reloadTimers, loads,
                   edits, notifies, lastReload>>
    /\ UNCHANGED <<prefixes, dispVars, connVars, storeFile>>

\* no debounce timer is pending and no loadCommands call is running
reloadsIdle ==
    \A f \in FileSet : reloadTimers[f] = 0 /\ ~loads[f].active

\* the 5 s timer fires and setupCommandWatcher runs: fs.watch returns a new
\* watcher with a new processingFiles set, or throws and the catch sets the
\* timer again. The 500 ms timers of the old watcher and the loads they
\* started are over by then.
WatchRestart(ok) ==
    /\ watcher = "restarting"
    /\ reloadsIdle
    /\ IF ok
       THEN /\ watcher' = "active"
            /\ UNCHANGED watchFaults
       ELSE /\ watchFaults < MaxWatchFaults
            /\ watchFaults' = watchFaults + 1
            /\ UNCHANGED watcher
    /\ processingFiles' = {}
    /\ UNCHANGED <<commands, dirState, dirFiles, reloadTimers, loads,
                   edits, notifies, lastReload>>
    /\ UNCHANGED <<prefixes, dispVars, connVars, storeFile>>

(* ------------------------------ messages ------------------------------- *)
NoId == "undefined"
StatusJid == "status@broadcast"
GroupJids == {"g1@g.us"}

\* msg.key.remoteJid.endsWith("@g.us")
isGroupJid(j) == j \in GroupJids

isReservedIdNever(id) == FALSE

\* msg.key.id.startsWith("BAE5") && msg.key.id.length === 16
isReservedId(id) == id = "BAE5000000000000"

mIg == [id |-> "A", from |-> "u1@s.whatsapp.net", hasMessage |-> TRUE,
        body |-> <<"/", "i", "g", " ", "x">>]
mMenu == [id |-> "B", from |-> "g1@g.us", hasMessage |-> TRUE,
          body |-> <<"!", "m", "e", "n", "u", "2">>]

mIgUp == [id |-> "C", from |-> "u1@s.whatsapp.net", hasMessage |-> TRUE,
          body |-> <<".", "I", "G">>]
mIgdl == [id |-> "D", from |-> "u1@s.whatsapp.net", hasMessage |-> TRUE,
          body |-> <<"!", "i", "g", "d", "l", " ", " ", "x">>]

MsgIds == {"A", "B", "C", "D"}

\* the message lists a messages.upsert event may carry
BatchChoices == { <<mIg, mIgUp, mIgdl>>, <<mMenu, mIg>>, <<mMenu, mMenu>> }

\* the longest message list of BatchChoices
MaxBatchLen == 3

UpsertTypes == {"notify", "append"}

NewTask == [pc |-> "pending", command |-> <<>>, args |-> <<>>, lookup |-> NoHandler,
            handler |-> NoHandler, raised |-> FALSE, errNotifs |-> 0, log |-> "none",
            acked |-> FALSE, prefix |-> NoPrefix]

\* a test that lets a message list of any type through
dispatchableAnyType(type, msgs) == Len(msgs) > 0

\* the negation of (!chatUpdate.messages?.length || chatUpdate.type !== "notify")
dispatchable(type, msgs) == Len(msgs) > 0 /\ type = "notify"

\* the events one flush of the event buffer hands to the sock.ev.process
\* callback; type "none": the flush carries no messages.upsert
NewBatch(creds, type, msgs, groups, conn) ==
    [type |-> type, msgs |-> msgs, seen |-> {},
     next |-> IF dispatchable(type, msgs) THEN 1 ELSE Len(msgs) + 1,
     tasks |-> [k \in 1..Len(msgs) |-> NewTask],
     creds |-> IF creds THEN "waiting" ELSE "none",
     groups |-> IF groups THEN "waiting" ELSE "none",
     conn |-> IF conn THEN "waiting" ELSE "none",
     pc |-> "start"]

(* --------------------------- probe messages ---------------------------- *)
\* the upper-case letters that toLowerCase maps to c
UpperOf(c) == {u \in DOMAIN LowerOf : LowerOf[u] = c}

\* every letter-casing of the key k
RECURSIVE Casings(_)
Casings(k) ==
    IF k = <<>> THEN {<<>>}
    ELSE {<<c>> \o r : c \in {Head(k)} \cup UpperOf(Head(k)), r \in Casings(Tail(k))}

PrefixSet == {Prefixes[k] : k \in 1..Len(Prefixes)}

\* the keys of the registry loaded at start, and the unit each belongs to
registeredKeys == UNION {unitKeys(f) : f \in FileSet}

unitOfKey(k) == CHOOSE f \in FileSet : k \in unitKeys(f)

ProbeArgs == { <<"x">>, <<"X">> }

PrivateJid == "u1@s.whatsapp.net"

ProbeFroms == {PrivateJid} \cup GroupJids

Probe(id, from, body, kind, key, arg) ==
    [id |-> id, from |-> from, hasMessage |-> TRUE, body |-> body,
     kind |-> kind, key |-> key, arg |-> arg]

\* prefix, a casing of a registered key, one space, one argument
CommandProbes ==
    UNION { { Probe("P", j, p \o c \o <<" ">> \o a, "command", k, a) :
                p \in PrefixSet, c \in Casings(k), a \in ProbeArgs, j \in ProbeFroms }
            : k \in registeredKeys }

\* an id that starts with BAE5 and is not 16 characters long
ShortIdProbes ==
    { Probe("BAE5", PrivateJid, <<"/", "i", "g", " ", "x">>, "command", <<"i", "g">>, <<"x">>) }

\* the same bodies without the prefix, or with a space before it
NoPrefixProbes ==
    UNION { { Probe("P", j, c \o <<" ">> \o a, "noprefix", k, a) :
                c \in {k, <<" ", "/">> \o k}, a \in ProbeArgs, j \in ProbeFroms }
            : k \in registeredKeys }

\* a prefix followed by a name that is no key of the registry
UnknownNames == { <<"n", "o">>, <<"i", "g", "x">>, <<"i">>, <<"m", "e", "n", "u">> }

UnknownProbes ==
    { Probe("P", j, p \o u \o t, "unknown", u, <<>>) :
        p \in PrefixSet, u \in UnknownNames, t \in {<<>>, <<" ", "x">>}, j \in ProbeFroms }

ProbeBodies == { <<"/", "i", "g", " ", "x">>, <<"h", "i">>, <<>> }

\* msg.key.id is undefined or the empty string
NoIdProbes ==
    { Probe(id, j, body, "noid", <<>>, <<>>) :
        id \in {NoId, ""}, j \in ProbeFroms, body \in ProbeBodies }

\* the chat is status@broadcast, or the id is a reserved one
RejectedProbes ==
    { Probe(id, StatusJid, body, "rejected", <<>>, <<>>) :
        id \in {"P", NoId, "BAE5000000000000"}, body \in ProbeBodies }
    \cup { Probe("BAE5000000000000", j, body, "rejected", <<>>, <<>>) :
             j \in ProbeFroms, body \in ProbeBodies }

\* separators that hold a tab or a line break
WhiteSeparators == { <<"\t">>, <<"\n">>, <<" ", "\t">>, <<"\n", " ">> }

\* prefix, a registered key, a separator with a tab or a line break, an
\* argument; and the same with a space after the key and the separator
\* between two arguments
WhiteProbes ==
    UNION { { Probe("P", PrivateJid, p \o k \o s \o a, "white", k, a) :
                p \in PrefixSet, s \in WhiteSeparators, a \in ProbeArgs }
            \cup { Probe("P", PrivateJid, p \o k \o <<" ">> \o a \o s \o a, "white", k, a) :
                p \in PrefixSet, s \in WhiteSeparators, a \in ProbeArgs }
            : k \in { <<"i", "g">>, <<"m", "e", "n", "u", "2">> } }

ProbeMsgs == CommandProbes \cup ShortIdProbes \cup NoPrefixProbes \cup UnknownProbes
             \cup NoIdProbes \cup RejectedProbes \cup WhiteProbes

\* events of two flushes: commands (two of them with the same id), a plain
\* text, and events the dispatcher rejects
PairMsgs ==
    { Probe("P", PrivateJid, <<"/", "i", "g", " ", "x">>, "command", <<"i", "g">>, <<"x">>),
      Probe("P", "g1@g.us", <<"!", "m", "e", "n", "u", "2">>, "command",
            <<"m", "e", "n", "u", "2">>, <<>>),
      Probe("Q", PrivateJid, <<".", "I", "G">>, "command", <<"i", "g">>, <<>>),
      Probe("R", PrivateJid, <<"h", "i">>, "noprefix", <<>>, <<>>),
      Probe("P", StatusJid, <<"/", "i", "g", " ", "x">>, "rejected", <<>>, <<>>),
      Probe("BAE5000000000000", PrivateJid, <<"/", "i", "g", " ", "x">>, "rejected",
            <<>>, <<>>),
      [Probe("Q", PrivateJid, <<>>, "rejected", <<>>, <<>>) EXCEPT !.hasMessage = FALSE] }

\* bodies that start with one, with two or with none of the entries of the
\* prefix lists
PrefixBodies ==
    { <<"!", "!", "i", "g", " ", "x">>, <<"!", "i", "g", " ", "x">>,
      <<"/", "i", "g", " ", "x">>, <<"/", "!", "i", "g", " ", "x">>,
      <<"i", "g", " ", "x">>, <<"!", "!", "m", "e", "n", "u", "2">>,
      <<".", "I", "G">> }

PrefixProbes ==
    { Probe("P", j, body, "prefix", <<>>, <<>>) : j \in ProbeFroms, body \in PrefixBodies }

(* --------------------------- event callback ---------------------------- *)
\* if (events["connection.update"]) handleConnectionUpdate(...): not awaited
afterGroups(bt) ==
    [bt EXCEPT !.pc = "end", !.conn = IF bt.conn = "waiting" THEN "handled" ELSE @]

\* if (events["groups.update"]) ... await handleGroupUpdate(sock, event)
afterMsgs(bt) ==
    IF bt.groups = "waiting"
    THEN [bt EXCEPT !.pc = "groups", !.groups = "fetching"]
    ELSE afterGroups(bt)

\* if (events["messages.upsert"]): an empty list or a type other than notify
\* returns from the callback
afterCreds(bt) ==
    IF bt.type = "none" THEN afterMsgs(bt)
    ELSE IF dispatchable(bt.type, bt.msgs) THEN [bt EXCEPT !.pc = "msgs"]
    ELSE [bt EXCEPT !.pc = "end"]

startCredsNoAwait(bt) == afterCreds([bt EXCEPT !.creds = "saving"])

\* if (events["creds.update"]) await saveCreds()
startCreds(bt) == [bt EXCEPT !.pc = "creds", !.creds = "saving"]

\* the callback from its entry to its first await
startCallback(bt) == IF bt.creds = "waiting" THEN startCreds(bt) ELSE afterCreds(bt)

\* the for-of loop has taken its last message and that message is handled
loopEnded(bt) ==
    /\ bt.pc = "msgs"
    /\ bt.next > Len(bt.msgs)
    /\ bt.tasks[Len(bt.msgs)].pc = "done"

\* the callback runs on after the loop, up to its next await
resume(bt) == IF loopEnded(bt) THEN afterMsgs(bt) ELSE bt

(* ----------------------------- dispatcher ------------------------------ *)
\* the entry with readMessages called before the has() check
enterHandleAckFirst(t, m, cache) ==
    IF (~m.hasMessage) \/ m.from = StatusJid
    THEN [t EXCEPT !.pc = "done"]
    ELSE IF m.id = NoId
    THEN [t EXCEPT !.pc = "done", !.log = "error"]
    ELSE IF isReservedId(m.id)
    THEN [t EXCEPT !.pc = "done"]
    ELSE IF m.id \in cache
    THEN [t EXCEPT !.pc = "done", !.log = "duplicate", !.acked = TRUE]
    ELSE [t EXCEPT !.pc = "ack", !.acked = TRUE]

\* handleIncomingMessage from its entry to its first await (or its return)
enterHandle(t, m, cache) ==
    IF (~m.hasMessage) \/ m.from = StatusJid
    THEN [t EXCEPT !.pc = "done"]
    ELSE IF m.id = NoId
    THEN [t EXCEPT !.pc = "done", !.log = "error"]
    ELSE IF isReservedId(m.id)
    THEN [t EXCEPT !.pc = "done"]
    ELSE IF m.id \in cache
    THEN [t EXCEPT !.pc = "done", !.log = "duplicate"]
    ELSE [t EXCEPT !.pc = "ack", !.acked = TRUE]

markProcessedNever(cache, t, id) == cache

\* processedMessagesCache.set(messageId, true), in the step of the has() check
markProcessed(cache, t, id) == IF t.pc = "ack" THEN cache \cup {id} ELSE cache

awaitSettledNoWait(bt) == TRUE

\* the for-of loop may take its next message once the awaited call has settled
awaitSettled(bt) == IF bt.next = 1 THEN TRUE ELSE bt.tasks[bt.next - 1].pc = "done"

\* const commandFile = commands.get(command); await commandFile.execute(...)
invoke(t, reg) ==
    IF t.command \in DOMAIN reg
    THEN [t EXCEPT !.pc = "exec", !.handler = reg[t.command]]
    ELSE [t EXCEPT !.pc = "notify", !.raised = TRUE, !.errNotifs = t.errNotifs + 1,
                   !.log = "error"]

afterAckReporting(t, m, reg) ==
    IF m.body = <<>> \/ m.from = ""
    THEN [t EXCEPT !.pc = "done"]
    ELSE IF ~prefixTruthy(usedPrefix(m.body))
    THEN [t EXCEPT !.pc = "done"]
    ELSE LET cmd == parseCommand(m.body)
             t1 == [t EXCEPT !.command = cmd, !.args = Tail(parseArgs(m.body)),
                             !.prefix = usedPrefix(m.body)]
         IN IF cmd # <<>> /\ cmd \in DOMAIN reg
            THEN IF isGroupJid(m.from)
                 THEN [t1 EXCEPT !.pc = "meta", !.lookup = reg[cmd]]
                 ELSE invoke([t1 EXCEPT !.lookup = reg[cmd]], reg)
            ELSE [t1 EXCEPT !.pc = "notify", !.errNotifs = t.errNotifs + 1]

\* handleIncomingMessage after sock.readMessages has resolved, up to the next await
afterAck(t, m, reg) ==
    IF m.body = <<>> \/ m.from = ""
    THEN [t EXCEPT !.pc = "done"]
    ELSE IF ~prefixTruthy(usedPrefix(m.body))
    THEN [t EXCEPT !.pc = "done"]
    ELSE LET cmd == parseCommand(m.body)
             t1 == [t EXCEPT !.command = cmd, !.args = Tail(parseArgs(m.body)),
                             !.prefix = usedPrefix(m.body)]
         IN IF cmd # <<>> /\ cmd \in DOMAIN reg
            THEN IF isGroupJid(m.from)
                 THEN [t1 EXCEPT !.pc = "meta", !.lookup = reg[cmd]]
                 ELSE invoke([t1 EXCEPT !.lookup = reg[cmd]], reg)
            ELSE [t1 EXCEPT !.pc = "done"]

logExec(log, b, i, m, t) ==
    IF t.pc = "exec"
    THEN Append(log, [batch |-> b, index |-> i, id |-> m.id, from |-> m.from,
                      unit |-> t.handler.unit, args |-> t.args])
    ELSE log

\* the number of messages handed over so far
RECURSIVE delivered(_)
delivered(bs) == IF bs = <<>> THEN 0 ELSE Len(Head(bs).msgs) + delivered(Tail(bs))

\* the transport hands an event batch with a messages.upsert to the handler
Deliver(msgs, type) ==
    /\ Running
    /\ delivered(batches) + Len(msgs) <= MaxMsgs
    /\ batches' = Append(batches, startCallback(NewBatch(FALSE, type, msgs, FALSE, FALSE)))
    /\ storeFile' = "stale"
    /\ UNCHANGED <<processedMessagesCache, expired, execLog>>
    /\ UNCHANGED <<groupCache, regVars, connVars>>

\* the transport hands over a batch of one message while the registry is live
DeliverSingle(m) ==
    /\ Running
    /\ Len(batches) < MaxRegBatches
    /\ batches' = Append(batches,
          startCallback(NewBatch(FALSE, "notify", <<m>>, FALSE, FALSE)))
    /\ storeFile' = "stale"
    /\ UNCHANGED <<processedMessagesCache, expired, execLog>>
    /\ UNCHANGED <<groupCache, regVars, connVars>>

\* one iteration of the loop over chatUpdate.messages
LoopStep(b) ==
    /\ Running
    /\ b \in 1..Len(batches)
    /\ LET bt == batches[b]
           i == bt.next
       IN /\ bt.pc = "msgs"
          /\ i <= Len(bt.msgs)
          /\ awaitSettled(bt)
          /\ LET m == bt.msgs[i]
                 skip == m.id # NoId /\ m.id # "" /\ m.id \in bt.seen
                 t == IF skip THEN [NewTask EXCEPT !.pc = "done", !.log = "skipped"]
                      ELSE enterHandle(NewTask, m, processedMessagesCache)
                 seen2 == IF m.id # NoId /\ m.id # "" THEN bt.seen \cup {m.id} ELSE bt.seen
             IN /\ batches' = [batches EXCEPT ![b] =
                       resume([bt EXCEPT !.next = i + 1, !.seen = seen2, !.tasks[i] = t])]
                /\ processedMessagesCache' = markProcessed(processedMessagesCache, t, m.id)
    /\ UNCHANGED <<expired, execLog>>
    /\ UNCHANGED <<groupCache, regVars, connVars, storeFile>>

\* a rejection of readMessages that is reported to the chat like a handler error
afterAckFailedNotifying(t) ==
    [t EXCEPT !.pc = "notify", !.errNotifs = t.errNotifs + 1, !.log = "error"]

\* sock.readMessages has rejected: the outer catch of handleIncomingMessage
\* logs the error and the function returns
afterAckFailed(t) == [t EXCEPT !.pc = "done", !.log = "error"]

\* await sock.readMessages([msg.key]) settles
AckDone(b, i, ok) ==
    /\ Running
    /\ b \in 1..Len(batches)
    /\ i \in 1..Len(batches[b].msgs)
    /\ batches[b].tasks[i].pc = "ack"
    /\ LET m == batches[b].msgs[i]
           t == IF ok THEN afterAck(batches[b].tasks[i], m, commands)
                ELSE afterAckFailed(batches[b].tasks[i])
       IN /\ batches' = [batches EXCEPT ![b] = resume([batches[b] EXCEPT !.tasks[i] = t])]
          /\ execLog' = logExec(execLog, b, i, m, t)
    /\ UNCHANGED <<processedMessagesCache, expired>>
    /\ UNCHANGED <<groupCache, regVars, connVars, storeFile>>

\* await sock.groupMetadata(from) settles (resolved or rejected)
MetaDone(b, i) ==
    /\ Running
    /\ b \in 1..Len(batches)
    /\ i \in 1..Len(batches[b].msgs)
    /\ batches[b].tasks[i].pc = "meta"
    /\ LET m == batches[b].msgs[i]
           t == invoke(batches[b].tasks[i], commands)
       IN /\ batches' = [batches EXCEPT ![b] = resume([batches[b] EXCEPT !.tasks[i] = t])]
          /\ execLog' = logExec(execLog, b, i, m, t)
    /\ UNCHANGED <<processedMessagesCache, expired>>
    /\ UNCHANGED <<groupCache, regVars, connVars, storeFile>>

\* await commandFile.execute(...) settles
ExecDone(b, i, o) ==
    /\ Running
    /\ b \in 1..Len(batches)
    /\ i \in 1..Len(batches[b].msgs)
    /\ batches[b].tasks[i].pc = "exec"
    /\ o \in HandlerOutcomes(batches[b].tasks[i].handler.unit)
    /\ LET t == batches[b].tasks[i]
           own == IF o = "notify_throw" THEN 1 ELSE 0
           t2 == IF o = "ok" THEN [t EXCEPT !.pc = "done"]
                 ELSE [t EXCEPT !.pc = "notify", !.raised = TRUE, !.log = "error",
                                !.errNotifs = t.errNotifs + own + 1]
       IN batches' = [batches EXCEPT ![b] = resume([batches[b] EXCEPT !.tasks[i] = t2])]
    /\ UNCHANGED <<processedMessagesCache, expired, execLog>>
    /\ UNCHANGED <<groupCache, regVars, connVars, storeFile>>

\* await sock.sendMessage(from, {text: "Error executing command: ..."}) settles
NotifyDone(b, i, ok) ==
    /\ Running
    /\ b \in 1..Len(batches)
    /\ i \in 1..Len(batches[b].msgs)
    /\ batches[b].tasks[i].pc = "notify"
    /\ LET t == [batches[b].tasks[i] EXCEPT !.pc = "done",
                                           !.log = IF ok THEN @ ELSE "send-error"]
       IN batches' = [batches EXCEPT ![b] = resume([batches[b] EXCEPT !.tasks[i] = t])]
    /\ UNCHANGED <<processedMessagesCache, expired, execLog>>
    /\ UNCHANGED <<groupCache, regVars, connVars, storeFile>>

\* the dedup cache drops an id whose TTL (3600 s) has run out
Expire(id) ==
    /\ id \in processedMessagesCache
    /\ Cardinality(expired) < MaxExpiries
    /\ processedMessagesCache' = processedMessagesCache \ {id}
    /\ expired' = expired \cup {id}
    /\ UNCHANGED <<batches, execLog>>
    /\ UNCHANGED <<groupCache, regVars, connVars, storeFile>>

(* ------------------------ events of one flush ------------------------- *)
\* the message lists of the flushes that also carry other events
EventMsgs == { <<>>, <<mMenu>> }

\* the transport hands a flush of its event buffer to the callback
DeliverEvents(creds, type, msgs, groups, conn) ==
    /\ Running
    /\ Len(batches) < MaxEventBatches
    /\ creds \/ type # "none" \/ groups \/ conn
    /\ type = "none" => msgs = <<>>
    /\ batches' = Append(batches, startCallback(NewBatch(creds, type, msgs, groups, conn)))
    /\ storeFile' = "stale"
    /\ UNCHANGED <<processedMessagesCache, expired, execLog>>
    /\ UNCHANGED <<groupCache, regVars, connVars>>

\* await saveCreds() settles: creds.json is written, or the failure is logged
SaveCredsDone(b, ok) ==
    /\ Running
    /\ b \in 1..Len(batches)
    /\ batches[b].creds = "saving"
    /\ LET bt == [batches[b] EXCEPT !.creds = IF ok THEN "saved" ELSE "failed"]
       IN batches' = [batches EXCEPT ![b] = IF bt.pc = "creds" THEN afterCreds(bt) ELSE bt]
    /\ sessionFiles' = IF ok THEN sessionFiles \cup {"creds.json"} ELSE sessionFiles
    /\ UNCHANGED <<processedMessagesCache, expired, execLog>>
    /\ UNCHANGED <<reconnectAttempts, sockConnecting, sockOpen, socketsCreated, redelivered,
                   reconnectTimers, connSetup, connRetry, setupFailures, storeIntervals,
                   removals, delays, lastConn, exited>>
    /\ UNCHANGED <<groupCache, regVars, storeFile>>

\* the group a groups.update event is about
UpdatedGroup == "g1@g.us"

\* await handleGroupUpdate(sock, event) settles: sock.groupMetadata(event.id)
\* has resolved and groupCache.set stores the metadata, or it has rejected,
\* the fault is logged and groupCache.del drops the entry
GroupUpdateDone(b, ok) ==
    /\ Running
    /\ b \in 1..Len(batches)
    /\ batches[b].pc = "groups"
    /\ batches' = [batches EXCEPT ![b] = afterGroups([batches[b] EXCEPT !.groups = "done"])]
    /\ groupCache' = IF ok THEN groupCache \cup {UpdatedGroup}
                     ELSE groupCache \ {UpdatedGroup}
    /\ UNCHANGED <<processedMessagesCache, expired, execLog>>
    /\ UNCHANGED <<regVars, connVars, storeFile>>

\* the 10 s interval fires and store.writeToFile("./store.json") succeeds
\* (a write that fails is logged and leaves the file as it was)
StoreTick ==
    /\ Running
    /\ storeIntervals > 0
    /\ storeFile = "stale"
    /\ storeFile' = "current"
    /\ UNCHANGED <<regVars, dispVars, connVars>>

\* SIGINT or SIGTERM: store.writeToFile("./store.json"), then process.exit(0)
Shutdown(ok) ==
    /\ Running
    /\ storeFile' = IF ok THEN "current" ELSE storeFile
    /\ exited' = "signal"
    /\ UNCHANGED <<reconnectAttempts, sockConnecting, sockOpen, socketsCreated, redelivered,
                   reconnectTimers, connSetup, connRetry, setupFailures, storeIntervals,
                   sessionFiles, removals, delays, lastConn>>
    /\ UNCHANGED <<regVars, dispVars>>

(* ------------------------- connection manager -------------------------- *)
MAX_RECONNECT_ATTEMPTS == 10
MAX_RECONNECT_DELAY == 60000

\* delays are kept in units of 1/2^MAX_RECONNECT_ATTEMPTS ms, in which
\* 1000 * 1.5^k is a whole number for every k up to MAX_RECONNECT_ATTEMPTS
DelayScale == 2 ^ MAX_RECONNECT_ATTEMPTS

Min(a, b) == IF a <= b THEN a ELSE b

\* the delay computed from the counter before its increment
backoffDelayBeforeIncrement(k) ==
    IF k > MAX_RECONNECT_ATTEMPTS
    THEN MAX_RECONNECT_DELAY * DelayScale
    ELSE IF k < 1 THEN 1000 * DelayScale
    ELSE Min(1000 * (3 ^ (k - 1)) * (2 ^ (MAX_RECONNECT_ATTEMPTS - k + 1)),
             MAX_RECONNECT_DELAY * DelayScale)

\* Math.min(1000 * Math.pow(1.5, reconnectAttempts), MAX_RECONNECT_DELAY)
\* (beyond MAX_RECONNECT_ATTEMPTS the power exceeds the cap: 1000 * 1.5^11 > 60000)
backoffDelay(k) ==
    IF k > MAX_RECONNECT_ATTEMPTS
    THEN MAX_RECONNECT_DELAY * DelayScale
    ELSE Min(1000 * (3 ^ k) * (2 ^ (MAX_RECONNECT_ATTEMPTS - k)),
             MAX_RECONNECT_DELAY * DelayScale)

\* what lastDisconnect.error.output.statusCode may carry; 0 stands for absent
StatusInputs == {0, 401, 403, 428}

\* lastDisconnect?.error?.output?.statusCode || 500
statusCodeOf(raw) == IF raw = 0 THEN 500 ELSE raw

isAuthInvalidOnly401(code) == code = 401

isAuthInvalidAlways(code) == TRUE

\* statusCode === DisconnectReason.loggedOut || statusCode === 401 || statusCode === 403
isAuthInvalid(code) == code = 401 \/ code = 403

mayRetryOffByOne(n) == n <= MAX_RECONNECT_ATTEMPTS

\* if (reconnectAttempts < MAX_RECONNECT_ATTEMPTS)
mayRetry(n) == n < MAX_RECONNECT_ATTEMPTS

SessionFileOrder == <<"creds.json", "pre-key-1.json">>

RECURSIVE readdirFrom(_, _)
readdirFrom(fs, k) ==
    IF k > Len(SessionFileOrder) THEN <<>>
    ELSE IF SessionFileOrder[k] \in fs
         THEN <<SessionFileOrder[k]>> \o readdirFrom(fs, k + 1)
         ELSE readdirFrom(fs, k + 1)

\* connectToWhatsApp from its entry to await useMultiFileAuthState(...)
ConnectStart(dirOk) ==
    IF dirOk
    THEN /\ storeIntervals' = storeIntervals + 1
         /\ connSetup' = connSetup + 1
         /\ UNCHANGED <<connRetry, setupFailures>>
    ELSE /\ setupFailures < MaxSetupFailures
         /\ setupFailures' = setupFailures + 1
         /\ connRetry' = connRetry + 1
         /\ UNCHANGED <<storeIntervals, connSetup>>

\* the close branch of handleConnectionUpdate, up to its await or its end
onClose(raw) ==
    LET code == statusCodeOf(raw) IN
    /\ lastConn' = [connection |-> "close", status |-> code, attempts |-> reconnectAttempts,
                  scheduled |-> Len(delays)]
    /\ IF isAuthInvalid(code)
       THEN /\ removals' = Append(removals, [pc |-> "readdir", todo |-> <<>>, cause |-> code])
            /\ UNCHANGED <<reconnectAttempts, reconnectTimers, delays, exited>>
       ELSE IF mayRetry(reconnectAttempts)
       THEN /\ reconnectAttempts' = reconnectAttempts + 1
            /\ reconnectTimers' = reconnectTimers + 1
            /\ delays' = Append(delays, backoffDelay(reconnectAttempts + 1))
            /\ UNCHANGED <<removals, exited>>
       ELSE /\ exited' = "gaveup"
            /\ UNCHANGED <<reconnectAttempts, reconnectTimers, delays, removals>>

\* connection.update {connection: "connecting"} is handled
ConnConnecting ==
    /\ Running
    /\ sockConnecting > 0
    /\ lastConn.connection # "connecting"
    /\ lastConn' = [connection |-> "connecting", status |-> 0, attempts |-> reconnectAttempts,
                  scheduled |-> Len(delays)]
    /\ UNCHANGED <<reconnectAttempts, sockConnecting, sockOpen, socketsCreated, redelivered,
                   reconnectTimers, connSetup, connRetry, setupFailures, storeIntervals,
                   sessionFiles, removals, delays, exited>>
    /\ UNCHANGED <<regVars, dispVars, storeFile>>

ConnOpenNoReset ==
    /\ Running
    /\ sockConnecting > 0
    /\ sockConnecting' = sockConnecting - 1
    /\ sockOpen' = sockOpen + 1
    /\ lastConn' = [connection |-> "open", status |-> 0, attempts |-> reconnectAttempts,
                  scheduled |-> Len(delays)]
    /\ UNCHANGED <<reconnectAttempts, delays>>
    /\ UNCHANGED <<socketsCreated, redelivered, reconnectTimers, connSetup, connRetry,
                   setupFailures, storeIntervals, sessionFiles, removals, exited>>
    /\ UNCHANGED <<regVars, dispVars, storeFile>>

\* connection.update {connection: "open"} is handled
ConnOpen ==
    /\ Running
    /\ sockConnecting > 0
    /\ sockConnecting' = sockConnecting - 1
    /\ sockOpen' = sockOpen + 1
    /\ reconnectAttempts' = 0
    /\ delays' = <<>>
    /\ lastConn' = [connection |-> "open", status |-> 0, attempts |-> reconnectAttempts,
                  scheduled |-> Len(delays)]
    /\ UNCHANGED <<socketsCreated, redelivered, reconnectTimers, connSetup, connRetry,
                   setupFailures, storeIntervals, sessionFiles, removals, exited>>
    /\ UNCHANGED <<regVars, dispVars, storeFile>>

\* a connecting or open socket closes; connection.update {connection: "close"}
ConnClose(wasOpen, raw) ==
    /\ Running
    /\ IF wasOpen
       THEN sockOpen > 0 /\ sockOpen' = sockOpen - 1 /\ UNCHANGED sockConnecting
       ELSE sockConnecting > 0 /\ sockConnecting' = sockConnecting - 1 /\ UNCHANGED sockOpen
    /\ onClose(raw)
    /\ UNCHANGED <<socketsCreated, redelivered, connSetup, connRetry, setupFailures,
                   storeIntervals, sessionFiles>>
    /\ UNCHANGED <<regVars, dispVars, storeFile>>

\* the close event of an already closed socket is delivered once more
ConnCloseAgain(raw) ==
    /\ Running
    /\ socketsCreated - sockConnecting - sockOpen > 0
    /\ redelivered < MaxRedeliveries
    /\ redelivered' = redelivered + 1
    /\ onClose(raw)
    /\ UNCHANGED <<sockConnecting, sockOpen, socketsCreated, connSetup, connRetry,
                   setupFailures, storeIntervals, sessionFiles>>
    /\ UNCHANGED <<regVars, dispVars, storeFile>>

\* removeCreds: await fs.promises.readdir(sessionFolder) settles
RemoveReaddir(k, ok) ==
    /\ Running
    /\ k \in 1..Len(removals)
    /\ removals[k].pc = "readdir"
    /\ LET todo == readdirFrom(sessionFiles, 1) IN
         IF ok /\ todo # <<>>
         THEN /\ removals' = [removals EXCEPT ![k].pc = "unlink", ![k].todo = todo]
              /\ UNCHANGED exited
         ELSE /\ removals' = [removals EXCEPT ![k].pc = IF ok THEN "removed" ELSE "failed",
                                              ![k].todo = <<>>]
              /\ exited' = "auth"
    /\ UNCHANGED <<reconnectAttempts, sockConnecting, sockOpen, socketsCreated, redelivered,
                   reconnectTimers, connSetup, connRetry, setupFailures, storeIntervals,
                   sessionFiles, delays, lastConn>>
    /\ UNCHANGED <<regVars, dispVars, storeFile>>

\* removeCreds: await fs.promises.unlink(...) settles; then process.exit(1)
RemoveUnlink(k, ok) ==
    /\ Running
    /\ k \in 1..Len(removals)
    /\ removals[k].pc = "unlink"
    /\ LET f == Head(removals[k].todo)
           done == ok /\ f \in sessionFiles
           rest == Tail(removals[k].todo)
       IN /\ sessionFiles' = IF done THEN sessionFiles \ {f} ELSE sessionFiles
          /\ IF done /\ rest # <<>>
             THEN /\ removals' = [removals EXCEPT ![k].todo = rest]
                  /\ UNCHANGED exited
             ELSE /\ removals' = [removals EXCEPT ![k].pc = IF done THEN "removed" ELSE "failed",
                                                  ![k].todo = rest]
                  /\ exited' = "auth"
    /\ UNCHANGED <<reconnectAttempts, sockConnecting, sockOpen, socketsCreated, redelivered,
                   reconnectTimers, connSetup, connRetry, setupFailures, storeIntervals,
                   delays, lastConn>>
    /\ UNCHANGED <<regVars, dispVars, storeFile>>

\* a reconnect timer fires and calls connectToWhatsApp
ReconnectTimer(dirOk) ==
    /\ Running
    /\ reconnectTimers > 0
    /\ reconnectTimers' = reconnectTimers - 1
    /\ ConnectStart(dirOk)
    /\ UNCHANGED <<reconnectAttempts, sockConnecting, sockOpen, socketsCreated, redelivered,
                   sessionFiles, removals, delays, lastConn, exited>>
    /\ UNCHANGED <<regVars, dispVars, storeFile>>

\* connectToWhatsApp from the auth state to sock.ev.process, or to its catch
ConnectSetup(outcome) ==
    /\ Running
    /\ connSetup > 0
    /\ connSetup' = connSetup - 1
    /\ CASE outcome = "socket" ->
              /\ socketsCreated < MaxSockets
              /\ socketsCreated' = socketsCreated + 1
              /\ sockConnecting' = sockConnecting + 1
              /\ UNCHANGED <<connRetry, setupFailures, exited>>
         [] outcome = "throw" ->
              /\ setupFailures < MaxSetupFailures
              /\ setupFailures' = setupFailures + 1
              /\ connRetry' = connRetry + 1
              /\ UNCHANGED <<socketsCreated, sockConnecting, exited>>
         [] outcome = "pairfail" ->
              /\ sessionFiles = {}
              /\ socketsCreated < MaxSockets
              /\ socketsCreated' = socketsCreated + 1
              /\ sockConnecting' = sockConnecting + 1
              /\ exited' = "pairing"
              /\ UNCHANGED <<connRetry, setupFailures>>
    /\ UNCHANGED <<reconnectAttempts, sockOpen, redelivered, reconnectTimers,
                   storeIntervals, sessionFiles, removals, delays, lastConn>>
    /\ UNCHANGED <<regVars, dispVars, storeFile>>

\* the 5 s wait of the catch block is over: return connectToWhatsApp()
ConnectRetry(dirOk) ==
    /\ Running
    /\ connRetry > 0
    /\ IF dirOk
       THEN /\ connRetry' = connRetry - 1
            /\ storeIntervals' = storeIntervals + 1
            /\ connSetup' = connSetup + 1
            /\ UNCHANGED setupFailures
       ELSE /\ setupFailures < MaxSetupFailures
            /\ setupFailures' = setupFailures + 1
            /\ UNCHANGED <<connRetry, storeIntervals, connSetup>>
    /\ UNCHANGED <<reconnectAttempts, sockConnecting, sockOpen, socketsCreated, redelivered,
                   reconnectTimers, sessionFiles, removals, delays, lastConn, exited>>
    /\ UNCHANGED <<regVars, dispVars, storeFile>>

(* --------------------------- specifications ---------------------------- *)
vars == <<regVars, dispVars, connVars, storeFile>>

InitRegistry ==
    /\ dirState = "ok"
    /\ dirFiles = [f \in FileSet |-> "good"]
    /\ commands = loadAll(EmptyMap, Files, [f \in FileSet |-> "good"])
    /\ processingFiles = {}
    /\ reloadTimers = [f \in FileSet |-> 0]
    /\ loads = [f \in FileSet |-> NoLoad]
    /\ edits = 0
    /\ notifies = 0
    /\ lastReload = [failed |-> FALSE, before |-> EmptyMap,
                    valid |-> FileSet, skipped |-> {}, seq |-> 0]
    /\ watcher = "active"
    /\ watchFaults = 0

InitReg == InitRegistry /\ prefixes = Prefixes

InitDisp ==
    /\ processedMessagesCache = {}
    /\ expired = {}
    /\ batches = <<>>
    /\ execLog = <<>>
    /\ groupCache = {}

\* startBot has called connectToWhatsApp, which awaits its auth state
InitConn ==
    /\ reconnectAttempts = 0
    /\ sockConnecting = 0
    /\ sockOpen = 0
    /\ socketsCreated = 0
    /\ redelivered = 0
    /\ reconnectTimers = 0
    /\ connSetup = 1
    /\ connRetry = 0
    /\ setupFailures = 0
    /\ storeIntervals = 1
    /\ sessionFiles \in {{}, {"creds.json", "pre-key-1.json"}}
    /\ removals = <<>>
    /\ delays = <<>>
    /\ lastConn = [connection |-> "none", status |-> 0, attempts |-> 0, scheduled |-> 0]
    /\ exited = "no"

\* store.readFromFile has loaded store.json into the store in memory
InitStore == storeFile = "current"

Init == InitReg /\ InitDisp /\ InitConn /\ InitStore

\* the dispatcher and the registry at work in a process with stored credentials
InitPaired == Init /\ sessionFiles # {}

NextReg ==
    \/ \E f \in FileSet, c \in Contents : EditFile(f, c)
    \/ \E s \in {"missing", "unreadable"} : DirFault(s)
    \/ \E f \in FileSet : Notify(f)
    \/ \E f \in FileSet : ReloadTimer(f)
    \/ \E f \in FileSet : LoadImport(f)

NextWatch ==
    \/ WatchFault
    \/ \E ok \in BOOLEAN : WatchRestart(ok)

\* a reload that runs from its timer to its swap
NextLoad ==
    \/ \E f \in FileSet : ReloadTimer(f)
    \/ \E f \in FileSet : LoadImport(f)

NextHandle ==
    \/ \E b \in 1..Len(batches) : LoopStep(b)
    \/ \E b \in 1..Len(batches), i \in 1..MaxBatchLen, ok \in BOOLEAN : AckDone(b, i, ok)
    \/ \E b \in 1..Len(batches), i \in 1..MaxBatchLen : MetaDone(b, i)
    \/ \E b \in 1..Len(batches), i \in 1..MaxBatchLen, o \in {"ok", "throw", "notify_throw"} :
          ExecDone(b, i, o)
    \/ \E b \in 1..Len(batches), i \in 1..MaxBatchLen, ok \in BOOLEAN : NotifyDone(b, i, ok)

NextDisp ==
    \/ \E msgs \in BatchChoices, type \in UpsertTypes : Deliver(msgs, type)
    \/ NextHandle
    \/ \E id \in MsgIds : Expire(id)

NextRegLive ==
    \/ NextReg
    \/ \E m \in {mIg, mMenu} : DeliverSingle(m)
    \/ NextHandle

NextConn ==
    \/ ConnConnecting
    \/ ConnOpen
    \/ \E wasOpen \in BOOLEAN, raw \in StatusInputs : ConnClose(wasOpen, raw)
    \/ \E raw \in StatusInputs : ConnCloseAgain(raw)
    \/ \E k \in 1..(MaxSockets + MaxRedeliveries), ok \in BOOLEAN : RemoveReaddir(k, ok)
    \/ \E k \in 1..(MaxSockets + MaxRedeliveries), ok \in BOOLEAN : RemoveUnlink(k, ok)
    \/ \E dirOk \in BOOLEAN : ReconnectTimer(dirOk)
    \/ \E outcome \in {"socket", "throw", "pairfail"} : ConnectSetup(outcome)
    \/ \E dirOk \in BOOLEAN : ConnectRetry(dirOk)
    \/ \E ok \in BOOLEAN : Shutdown(ok)

NextEvents ==
    \/ \E creds \in BOOLEAN, type \in {"none"} \cup UpsertTypes, msgs \in EventMsgs,
          groups \in BOOLEAN, conn \in BOOLEAN : DeliverEvents(creds, type, msgs, groups, conn)
    \/ \E b \in 1..Len(batches), ok \in BOOLEAN : SaveCredsDone(b, ok)
    \/ NextHandle
    \/ \E b \in 1..Len(batches), ok \in BOOLEAN : GroupUpdateDone(b, ok)
    \/ StoreTick
    \/ \E ok \in BOOLEAN : Shutdown(ok)

Next == NextReg \/ NextWatch \/ NextDisp \/ NextConn \/ NextEvents

Spec == Init /\ [][Next]_vars

SpecDisp == InitPaired /\ [][NextDisp]_vars

SpecReg == InitPaired /\ [][NextRegLive]_vars

\* the registry and its watcher alone
SpecLoad == InitPaired /\ [][NextReg]_vars

\* one unit was written and its debounce timer is pending; the directory holds
\* any contents, the rewritten units included
InitCollide ==
    /\ InitDisp /\ InitConn /\ InitStore
    /\ sessionFiles # {}
    /\ dirState = "ok"
    /\ dirFiles \in [FileSet -> ClashContents]
    /\ commands = loadAll(EmptyMap, Files, [f \in FileSet |-> "good"])
    /\ \E f \in FileSet :
          /\ processingFiles = {f}
          /\ reloadTimers = [g \in FileSet |-> IF g = f THEN 1 ELSE 0]
    /\ loads = [f \in FileSet |-> NoLoad]
    /\ edits = 1
    /\ notifies = 0
    /\ lastReload = [failed |-> FALSE, before |-> EmptyMap,
                    valid |-> FileSet, skipped |-> {}, seq |-> 0]
    /\ watcher = "active"
    /\ watchFaults = 0
    /\ prefixes = Prefixes

SpecCollide == InitCollide /\ [][NextLoad]_vars

\* edits of the units, their reloads and a watcher that can fail. The timers of the event loop
\* fire and the imports of local files settle.
SpecWatch ==
    /\ InitPaired
    /\ [][(\E f \in FileSet, c \in Contents : EditFile(f, c)) \/ NextLoad \/ NextWatch]_vars
    /\ WF_vars(\E ok \in BOOLEAN : WatchRestart(ok))
    /\ WF_vars(\E f \in FileSet : ReloadTimer(f))
    /\ WF_vars(\E f \in FileSet : LoadImport(f))

SpecConn == Init /\ [][NextConn]_vars

SpecEvents == InitPaired /\ [][NextEvents]_vars

\* a session that is closed as logged out or forbidden while the transport
\* still flushes a credential update
NextLogout ==
    \/ ConnectSetup("socket")
    \/ ConnConnecting
    \/ ConnOpen
    \/ \E wasOpen \in BOOLEAN, raw \in {401, 403} : ConnClose(wasOpen, raw)
    \/ \E k \in 1..(MaxSockets + MaxRedeliveries), ok \in BOOLEAN : RemoveReaddir(k, ok)
    \/ \E k \in 1..(MaxSockets + MaxRedeliveries), ok \in BOOLEAN : RemoveUnlink(k, ok)
    \/ \E groups \in BOOLEAN, conn \in BOOLEAN :
          DeliverEvents(TRUE, "none", <<>>, groups, conn)
    \/ \E b \in 1..Len(batches), ok \in BOOLEAN : SaveCredsDone(b, ok)
    \/ \E b \in 1..Len(batches), ok \in BOOLEAN : GroupUpdateDone(b, ok)

SpecLogout == Init /\ [][NextLogout]_vars

\* the continuations the event loop runs once a transport call has settled
\* (every query of the socket is bounded by defaultQueryTimeoutMs); the await
\* of commandFile.execute is not among them: nothing bounds a handler
NextSettle ==
    \/ \E b \in 1..Len(batches) : LoopStep(b)
    \/ \E b \in 1..Len(batches), i \in 1..MaxBatchLen, ok \in BOOLEAN : AckDone(b, i, ok)
    \/ \E b \in 1..Len(batches), i \in 1..MaxBatchLen : MetaDone(b, i)
    \/ \E b \in 1..Len(batches), i \in 1..MaxBatchLen, ok \in BOOLEAN : NotifyDone(b, i, ok)

SpecDispLive == InitPaired /\ [][NextDisp]_vars /\ WF_vars(NextSettle)

\* one flush carrying one message of the catalogue has been handed over
InitProbe ==
    /\ InitReg
    /\ InitConn
    /\ sessionFiles # {}
    /\ processedMessagesCache = {}
    /\ expired = {}
    /\ execLog = <<>>
    /\ groupCache = {}
    /\ storeFile = "stale"
    /\ \E m \in ProbeMsgs :
          batches = << startCallback(NewBatch(FALSE, "notify", <<m>>, FALSE, FALSE)) >>

SpecProbe == InitProbe /\ [][NextHandle]_vars

\* two flushes, each carrying one event, have been handed over
InitPair ==
    /\ InitReg
    /\ InitConn
    /\ sessionFiles # {}
    /\ processedMessagesCache = {}
    /\ expired = {}
    /\ execLog = <<>>
    /\ groupCache = {}
    /\ storeFile = "stale"
    /\ \E m1 \in PairMsgs, m2 \in PairMsgs :
          batches = << startCallback(NewBatch(FALSE, "notify", <<m1>>, FALSE, FALSE)),
                      startCallback(NewBatch(FALSE, "notify", <<m2>>, FALSE, FALSE)) >>

SpecPair == InitPair /\ [][NextHandle]_vars

\* one flush carrying one message has been handed over to a process that
\* runs with one of the prefix lists
InitPrefix ==
    /\ InitRegistry
    /\ InitConn
    /\ sessionFiles # {}
    /\ prefixes \in PrefixConfigs
    /\ processedMessagesCache = {}
    /\ expired = {}
    /\ execLog = <<>>
    /\ groupCache = {}
    /\ storeFile = "stale"
    /\ \E m \in PrefixProbes :
          batches = << startCallback(NewBatch(FALSE, "notify", <<m>>, FALSE, FALSE)) >>

SpecPrefix == InitPrefix /\ [][NextHandle]_vars

\* the registry was loaded from units written in lower or in upper case, and
\* one flush carrying a configured prefix followed by a key of that registry
\* has been handed over
InitUpper ==
    /\ InitConn
    /\ sessionFiles # {}
    /\ prefixes = Prefixes
    /\ dirState = "ok"
    /\ dirFiles \in [FileSet -> {"good", "upper"}]
    /\ commands = loadAll(EmptyMap, Files, dirFiles)
    /\ processingFiles = {}
    /\ reloadTimers = [f \in FileSet |-> 0]
    /\ loads = [f \in FileSet |-> NoLoad]
    /\ edits = 0
    /\ notifies = 0
    /\ lastReload = [failed |-> FALSE, before |-> EmptyMap,
                    valid |-> FileSet, skipped |-> {}, seq |-> 0]
    /\ watcher = "active"
    /\ watchFaults = 0
    /\ processedMessagesCache = {}
    /\ expired = {}
    /\ execLog = <<>>
    /\ groupCache = {}
    /\ storeFile = "stale"
    /\ \E p \in PrefixSet, k \in DOMAIN commands, j \in ProbeFroms :
          batches = << startCallback(NewBatch(FALSE, "notify",
                          << Probe("P", j, p \o k, "key", k, <<>>) >>, FALSE, FALSE)) >>

SpecUpper == InitUpper /\ [][NextHandle]_vars

\* a flush carrying a groups.update event has been handed over; messages
\* from the group and from a private chat follow
InitGroups ==
    /\ InitReg
    /\ InitConn
    /\ sessionFiles # {}
    /\ processedMessagesCache = {}
    /\ expired = {}
    /\ execLog = <<>>
    /\ groupCache = {}
    /\ storeFile = "stale"
    /\ batches = << startCallback(NewBatch(FALSE, "none", <<>>, TRUE, FALSE)) >>

NextGroups ==
    \/ \E b \in 1..Len(batches), ok \in BOOLEAN : GroupUpdateDone(b, ok)
    \/ \E msgs \in BatchChoices, type \in UpsertTypes : Deliver(msgs, type)
    \/ NextHandle

SpecGroups == InitGroups /\ [][NextGroups]_vars

(* ------------------------ dispatcher properties ------------------------ *)
TaskRefs == {<<b, i>> \in (1..Len(batches)) \X (1..MaxBatchLen) : i <= Len(batches[b].msgs)}

taskOf(r) == batches[r[1]].tasks[r[2]]
msgOf(r) == batches[r[1]].msgs[r[2]]

\* the deliveries of id to the dispatcher (messages.upsert of type notify)
deliveriesOf(id) == {r \in TaskRefs : batches[r[1]].type = "notify" /\ msgOf(r).id = id}

execsOf(id) == {k \in 1..Len(execLog) : execLog[k].id = id}

inFlight(b) == \E i \in 1..Len(batches[b].msgs) :
                  batches[b].tasks[i].pc \in {"ack", "meta", "exec", "notify"}

started(b) == \E i \in 1..Len(batches[b].msgs) : batches[b].tasks[i].pc # "pending"

\* C1: a message id whose body is a registered command and that was delivered
\* to the dispatcher at least twice within the dedup TTL has had its handler
\* invoked exactly once when all its deliveries have been handled.
C1_ExactlyOnce ==
    \A id \in MsgIds :
        ( /\ id \notin expired
          /\ Cardinality(deliveriesOf(id)) >= 2
          /\ \A r \in deliveriesOf(id) : taskOf(r).pc = "done" )
        => Cardinality(execsOf(id)) = 1

\* C7: no event of a later batch starts being handled while an event of an
\* earlier batch is still suspended in ack, metadata fetch, handler or notice.
C7_BatchesSerial ==
    \A b1 \in 1..Len(batches), b2 \in 1..Len(batches) :
        b1 < b2 => ~(inFlight(b1) /\ started(b2))

\* C8: within one batch the handling of a message does not start before the
\* handling of every earlier message of the batch has completed or failed, and
\* the handler invocations of the batch are logged in delivery order.
C8_InBatchOrder ==
    /\ \A b \in 1..Len(batches) :
         \A i \in 1..Len(batches[b].msgs), j \in 1..Len(batches[b].msgs) :
            (i < j /\ batches[b].tasks[j].pc # "pending")
               => batches[b].tasks[i].pc = "done"
    /\ \A k \in 1..Len(execLog), l \in 1..Len(execLog) :
         (k < l /\ execLog[k].batch = execLog[l].batch)
            => execLog[k].index < execLog[l].index

\* a batch of three events on one chat whose three handlers have all run
C8_Witness ==
    \E b \in 1..Len(batches) :
        /\ batches[b].msgs = <<mIg, mIgUp, mIgdl>>
        /\ \A i \in 1..3 : batches[b].tasks[i].pc = "done"
        /\ Cardinality({k \in 1..Len(execLog) : execLog[k].batch = b}) = 3

\* C9: a handler that raised has caused exactly one error notification to the
\* originating chat once its dispatch has finished.
C9_OneNotification ==
    \A r \in TaskRefs :
        (taskOf(r).raised /\ taskOf(r).pc = "done") => taskOf(r).errNotifs = 1

\* C12: of the deliveries of one id that are handled within the TTL, also by
\* interleaved invocations of the dispatcher, at most one passes the dedup
\* check, and the id is in the cache from the step in which it passed.
C12_OnePassesCheck ==
    \A id \in MsgIds :
        id \notin expired =>
            /\ Cardinality({r \in deliveriesOf(id) : taskOf(r).acked}) <= 1
            /\ (\E r \in deliveriesOf(id) : taskOf(r).acked) => id \in processedMessagesCache

\* two batches carry the same id: the copy of the first batch is still
\* suspended in its ack or its handler when the copy of the second batch is
\* dropped as a duplicate
C12_Witness ==
    \E b1 \in 1..Len(batches), b2 \in 1..Len(batches) :
        /\ b1 < b2
        /\ batches[b1].msgs[1].id = "B" /\ batches[b2].msgs[1].id = "B"
        /\ batches[b1].tasks[1].pc \in {"ack", "meta", "exec"}
        /\ batches[b2].tasks[1].pc = "done"
        /\ batches[b2].tasks[1].log = "duplicate"
        /\ ~batches[b2].tasks[1].acked

(* ----------------------- single-message properties --------------------- *)
\* C13: a message whose body is a configured prefix followed by a name that
\* is no key of the registry is acknowledged and dropped: no handler is
\* invoked, no metadata is fetched, nothing is raised and no message is sent
\* to the chat.
C13_UnknownSilent ==
    \A r \in TaskRefs :
        msgOf(r).kind = "unknown" =>
            /\ execLog = <<>>
            /\ taskOf(r).errNotifs = 0
            /\ ~taskOf(r).raised
            /\ taskOf(r).pc \in {"pending", "ack", "done"}
            /\ taskOf(r).lookup = NoHandler

\* "!menu x" from the group (menu2 is registered, menu is not) was
\* acknowledged, parsed and dropped
C13_Witness ==
    \E r \in TaskRefs :
        /\ msgOf(r).kind = "unknown"
        /\ msgOf(r).body = <<"!", "m", "e", "n", "u", " ", "x">>
        /\ msgOf(r).from \in GroupJids
        /\ taskOf(r).pc = "done"
        /\ taskOf(r).acked
        /\ taskOf(r).command = <<"m", "e", "n", "u">>

C15_NoIdSilent ==
    \A r \in TaskRefs :
        msgOf(r).kind = "noid" =>
            /\ ~taskOf(r).acked
            /\ taskOf(r).log # "error"
            /\ processedMessagesCache = {}
            /\ execLog = <<>>

\* C16: an event from status@broadcast, or with the reserved id, is dropped
\* at the entry of its handling whatever its body: no ack, no error, the
\* dedup cache stays as it was and no handler is invoked.
C16_RejectedNoEffect ==
    \A r \in TaskRefs :
        msgOf(r).kind = "rejected" =>
            /\ taskOf(r).pc \in {"pending", "done"}
            /\ ~taskOf(r).acked
            /\ taskOf(r).log = "none"
            /\ processedMessagesCache = {}
            /\ execLog = <<>>

\* "/ig x" with the reserved id from a private chat has been dropped
C16_Witness ==
    \E r \in TaskRefs :
        /\ msgOf(r).kind = "rejected"
        /\ msgOf(r).id = "BAE5000000000000"
        /\ msgOf(r).from = PrivateJid
        /\ msgOf(r).body = <<"/", "i", "g", " ", "x">>
        /\ taskOf(r).pc = "done"
        /\ batches[r[1]].pc = "end"

(* ------------------------- event-flush properties --------------------- *)
\* some message, group or connection event of the flush has been handled
handledAny(bt) ==
    \/ \E i \in 1..Len(bt.msgs) : bt.tasks[i].pc # "pending"
    \/ bt.groups \in {"fetching", "done"}
    \/ bt.conn = "handled"

\* C17: when a flush carries a credential update, no message, group or
\* connection event of that flush is handled before saveCreds has completed
\* or its failure has been logged.
C17_CredsFirst ==
    \A b \in 1..Len(batches) :
        (batches[b].creds # "none" /\ handledAny(batches[b]))
            => batches[b].creds \in {"saved", "failed"}

\* a flush with a credential update, a command, a group update and a
\* connection update has been handled to its end after the save completed
C17_Witness ==
    \E b \in 1..Len(batches) :
        /\ batches[b].creds = "saved"
        /\ batches[b].msgs = <<mMenu>>
        /\ batches[b].tasks[1].pc = "done"
        /\ \E k \in 1..Len(execLog) : execLog[k].batch = b
        /\ batches[b].groups = "done"
        /\ batches[b].conn = "handled"
        /\ batches[b].pc = "end"

\* C19: when the process has exited on SIGINT or SIGTERM, store.json holds
\* the store in memory and no credential save is left unfinished.
C19_FlushOnSignal ==
    exited = "signal" =>
        /\ storeFile = "current"
        /\ \A b \in 1..Len(batches) : batches[b].creds # "saving"

(* ------------------------- liveness properties ------------------------- *)
\* an event of a batch waits behind a handler that is still running
Blocked ==
    \E b \in 1..Len(batches) : \E i \in 1..Len(batches[b].msgs) :
        /\ i < Len(batches[b].msgs)
        /\ batches[b].tasks[i].pc = "exec"
        /\ batches[b].tasks[i + 1].pc = "pending"

\* C20: an event that waits behind a running handler is eventually
\* dispatched, also when that handler never completes.
C20_HandlerBounded == Blocked ~> ~Blocked

(* ------------------------- registry properties ------------------------- *)
\* C2: the handler a dispatch invokes is the handler its registry lookup found,
\* also when a reload swaps the registry while the dispatch is suspended.
C2_LookupIsInvoked ==
    \A r \in TaskRefs :
        (taskOf(r).lookup # NoHandler /\ taskOf(r).pc \in {"exec", "notify", "done"})
            => taskOf(r).handler = taskOf(r).lookup

\* C10: after a failed reload of a non-empty registry the registry is the
\* mapping that was installed before the reload.
C10_FailedReloadKeeps ==
    (lastReload.failed /\ lastReload.before # EmptyMap) => commands = lastReload.before

\* C11: the mapping a load returned holds the name and every alias of each
\* unit that was valid when it was imported, each resolving to that unit, and
\* no other key, whatever invalid or failing units the directory contained.
C11_InvalidSkipped ==
    /\ \A f \in lastReload.valid : \A k \in unitKeys(f) :
          k \in DOMAIN commands /\ commands[k] = Handler(f)
    /\ \A k \in DOMAIN commands : \E f \in lastReload.valid : k \in unitKeys(f)

\* a reload that skipped menu.js (invalid or failing to import) after ig.js
\* was imported has installed all the keys of ig.js
C11_Witness ==
    /\ lastReload.skipped = {"menu.js"}
    /\ lastReload.valid = {"ig.js"}
    /\ dirFiles["menu.js"] \in {"invalid", "broken"}
    /\ DOMAIN commands = unitKeys("ig.js")

(* ------------------------ connection properties ------------------------ *)
\* C3: at most one transport session is connecting or open at any time.
C3_OneSession == sockConnecting + sockOpen <= 1

\* C4: after a close with status 401 or 403 the credential clear has been
\* called, reconnectAttempts and the scheduled reconnects are what they were
\* before the close, and the process exits on that path only after a
\* removeCreds call has finished, successfully or not.
C4_AuthClose ==
    /\ (lastConn.connection = "close" /\ lastConn.status \in {401, 403})
          => /\ removals # <<>>
             /\ reconnectAttempts = lastConn.attempts
             /\ Len(delays) = lastConn.scheduled
    /\ exited = "auth"
          => \E k \in 1..Len(removals) : removals[k].pc \in {"removed", "failed"}

\* the process has exited after a 403 close that cleared the credential store
\* while earlier transient closes had counted up reconnectAttempts
C4_Witness ==
    /\ exited = "auth"
    /\ lastConn.status = 403
    /\ reconnectAttempts > 0
    /\ sessionFiles = {}
    /\ \E k \in 1..Len(removals) : removals[k].pc = "removed"

\* C18: a file of the credential store is deleted only by a removeCreds call
\* that an authentication-invalidated close (401, 403) started; transient
\* closes, reconnects, give-up, setup failures and signals start no removeCreds.
C18_ClearedOnlyOnAuth ==
    /\ [](\A k \in 1..Len(removals) : removals[k].cause \in {401, 403})
    /\ [][(\E f \in sessionFiles : f \notin sessionFiles')
             => \E k \in 1..Len(removals) :
                   removals[k].pc = "unlink" /\ removals[k].cause \in {401, 403}]_vars

\* after transient closes and a setup failure a 401 close has started the
\* removeCreds call that has deleted creds.json and is about to delete the rest
C18_Witness ==
    /\ sessionFiles = {"pre-key-1.json"}
    /\ reconnectAttempts > 0
    /\ setupFailures > 0
    /\ \E k \in 1..Len(removals) : removals[k].pc = "unlink" /\ removals[k].cause = 401

\* C21: the retries after a fatal setup failure are bounded: once setup has
\* failed MaxSetupFailures times, the number up to which failures are explored,
\* no further retry of connectToWhatsApp is pending unless the process has
\* terminated.
C21_SetupRetriesBounded ==
    setupFailures >= MaxSetupFailures => (connRetry = 0 \/ ~Running)

\* C5: reconnectAttempts never exceeds 10, at most 10 reconnects are scheduled
\* between two opens, and a transient close at reconnectAttempts = 10 schedules
\* nothing and terminates the process.
C5_BoundedRetries ==
    /\ reconnectAttempts <= 10
    /\ Len(delays) <= 10
    /\ (lastConn.connection = "close" /\ lastConn.status \notin {401, 403}
          /\ lastConn.attempts = 10)
          => (exited = "gaveup" /\ Len(delays) = lastConn.scheduled)
    /\ exited = "gaveup" => lastConn.attempts = 10

\* the eleventh consecutive transient close has terminated the process
C5_Witness ==
    /\ exited = "gaveup"
    /\ Len(delays) = 10
    /\ reconnectAttempts = 10

\* C6: the delays scheduled since the last open are non-decreasing and at most
\* 60000 ms, and reconnectAttempts is 0 right after an open was handled.
C6_Backoff ==
    /\ \A k \in 1..Len(delays) :
          /\ delays[k] <= 60000 * DelayScale
          /\ k > 1 => delays[k - 1] <= delays[k]
    /\ lastConn.connection = "open" => (reconnectAttempts = 0 /\ delays = <<>>)

\* an open has reset the counter after three consecutive transient closes
C6_Witness ==
    /\ lastConn.connection = "open"
    /\ lastConn.attempts = 3
    /\ lastConn.scheduled = 3
    /\ reconnectAttempts = 0

\* the reloads a definition unit has under way: its pending debounce timers
\* and its running loadCommands call
reloadsUnderWay(f) == reloadTimers[f] + (IF loads[f].active THEN 1 ELSE 0)

\* C22: from the first change notification of a unit until its reload has
\* swapped the registry there is exactly one reload under way for the unit,
\* however many notifications arrived, and a notification for a unit that is
\* already being processed starts no timer, no load and no swap.
C22_Coalesced ==
    /\ [](\A f \in FileSet :
            reloadsUnderWay(f) = (IF f \in processingFiles THEN 1 ELSE 0))
    /\ [][((notifies' # notifies \/ dirFiles' # dirFiles)
             /\ processingFiles' = processingFiles)
            => UNCHANGED <<reloadTimers, loads, commands>>]_vars

\* a second notification for the unit arrived while its timer was pending, and
\* one timer is pending
C22_Witness ==
    /\ edits = 1
    /\ notifies = 1
    /\ lastReload.before = EmptyMap
    /\ \E f \in FileSet :
          /\ reloadTimers[f] = 1
          /\ processingFiles = {f}

\* C23: after a watcher fault (an error event, or fs.watch throwing in
\* setupCommandWatcher) a watcher is eventually active again, and a change
\* made while a watcher is active starts the reload of the changed unit.
C23_WatchRestored ==
    /\ (watcher # "active") ~> (watcher = "active")
    /\ [][\A f \in FileSet :
            (watcher = "active" /\ dirState' = dirState /\ dirFiles'[f] # dirFiles[f])
               => f \in processingFiles']_vars

\* after an error event and a failed set-up the new watcher has seen a change
C23_Witness ==
    /\ watchFaults = MaxWatchFaults
    /\ watcher = "active"
    /\ \E f \in FileSet : reloadTimers[f] = 1

\* the positions, in load order, of the valid units of the last load that
\* claim key k as name or alias
claimants(k) ==
    {i \in 1..Len(Files) : /\ Files[i] \in lastReload.valid
                           /\ k \in unitKeysOf(Files[i], dirFiles[Files[i]])}

\* C24: after a load the mapping holds every key a valid unit claims, and a
\* key resolves to the one unit, among those that claim it, loaded last.
C24_LastLoadedWins ==
    lastReload.before # EmptyMap =>
       /\ \A k \in DOMAIN commands :
             /\ claimants(k) # {}
             /\ commands[k] = Handler(Files[Max(claimants(k))])
       /\ \A i \in 1..Len(Files) :
             Files[i] \in lastReload.valid =>
                unitKeysOf(Files[i], dirFiles[Files[i]]) \subseteq DOMAIN commands

\* both units claim menu2 and ig: after the load both keys resolve to menu.js,
\* which is loaded after ig.js
C24_Witness ==
    /\ lastReload.before # EmptyMap
    /\ lastReload.valid = FileSet
    /\ dirFiles = [f \in FileSet |-> "clash"]
    /\ commands[<<"m", "e", "n", "u", "2">>] = Handler("menu.js")
    /\ commands[<<"i", "g">>] = Handler("menu.js")
    /\ commands[<<"i", "n", "s", "t", "a", "g", "r", "a", "m">>] = Handler("ig.js")

\* C25: the delay scheduled on the k-th consecutive transient close, k being
\* reconnectAttempts after its increment, is min(1000 * 1.5^k, 60000) ms:
\* in units of 1/DelayScale ms (DelayScale = 2^10), delay / 2^(10-k) is
\* 1000 * 3^k without remainder below the cap, and delay is 60000 * DelayScale
\* from the cap on.
C25_ExactDelay ==
    /\ Len(delays) = reconnectAttempts
    /\ \A k \in 1..Len(delays) :
          /\ k <= MAX_RECONNECT_ATTEMPTS
          /\ IF 1000 * (3 ^ k) <= MAX_RECONNECT_DELAY * (2 ^ k)
             THEN /\ delays[k] % (2 ^ (MAX_RECONNECT_ATTEMPTS - k)) = 0
                  /\ delays[k] \div (2 ^ (MAX_RECONNECT_ATTEMPTS - k)) = 1000 * (3 ^ k)
             ELSE delays[k] = MAX_RECONNECT_DELAY * DelayScale

\* ten consecutive transient closes: the tenth delay is 1000 * 1.5^10 ms =
\* 57665.0390625 ms, and the process still runs
C25_Witness ==
    /\ Running
    /\ reconnectAttempts = MAX_RECONNECT_ATTEMPTS
    /\ Len(delays) = MAX_RECONNECT_ATTEMPTS
    /\ delays[MAX_RECONNECT_ATTEMPTS] = 59049000
    /\ delays[1] = 1500 * DelayScale

\* C26: every reconnect delay computed on a transient close is a whole number
\* of milliseconds.
C26_IntegerDelays ==
    \A k \in 1..Len(delays) : delays[k] % DelayScale = 0

\* the task has got past readMessages: its body was extracted
pastAck(t) ==
    \/ t.pc \in {"meta", "exec", "notify"}
    \/ t.command # <<>>
    \/ t.lookup # NoHandler
    \/ t.handler # NoHandler

\* C27: an event that passed the rejection and dedup checks has its id in the
\* dedup cache and readMessages called for it, once per id, before its body
\* is extracted or a handler is invoked; for a rejected event and for a
\* duplicate readMessages is never called.
C27_AckOnce ==
    /\ \A r \in TaskRefs :
          LET t == taskOf(r)
              m == msgOf(r)
          IN /\ m.kind = "rejected" => (~t.acked /\ ~pastAck(t))
             /\ t.log = "duplicate" => (~t.acked /\ ~pastAck(t))
             /\ (m.kind # "rejected" /\ t.pc # "pending" /\ t.log # "duplicate")
                   => (t.acked /\ m.id \in processedMessagesCache)
             /\ t.pc = "ack" => ~pastAck(t)
             /\ pastAck(t) => t.acked
             /\ execsOf(m.id) # {} => \E q \in TaskRefs : msgOf(q).id = m.id /\ taskOf(q).acked
    /\ \A r \in TaskRefs, q \in TaskRefs :
          (r # q /\ msgOf(r).id = msgOf(q).id) => ~(taskOf(r).acked /\ taskOf(q).acked)

\* of two events with the same id one was marked read and has reached its
\* handler, the other was dropped as a duplicate without being marked read
C27_Witness ==
    \E r \in TaskRefs, q \in TaskRefs :
       /\ r # q
       /\ msgOf(r).id = msgOf(q).id
       /\ taskOf(r).acked /\ taskOf(r).pc = "exec"
       /\ taskOf(q).log = "duplicate" /\ ~taskOf(q).acked

\* the tokens of s, every maximal run of spaces, tabs and line breaks being
\* one separator
RECURSIVE whiteTokensFrom(_, _, _, _)
whiteTokensFrom(s, k, cur, inRun) ==
    IF k > Len(s) THEN << cur >>
    ELSE IF s[k] \in WhiteSpace
         THEN IF inRun THEN whiteTokensFrom(s, k + 1, cur, TRUE)
              ELSE << cur >> \o whiteTokensFrom(s, k + 1, <<>>, TRUE)
         ELSE whiteTokensFrom(s, k + 1, Append(cur, s[k]), FALSE)

whiteTokens(body) ==
    whiteTokensFrom(trim(SubSeq(body, Len(usedPrefix(body)) + 1, Len(body))), 1, <<>>, FALSE)

\* C28: once the body of an event with a prefix was parsed, the command is
\* the first whitespace-separated token of the remainder, case-folded, and
\* the args are the tokens that follow, in order.
C28_WhitespaceTokens ==
    \A r \in TaskRefs :
       taskOf(r).command # <<>> =>
          /\ taskOf(r).command = toLowerCase(Head(whiteTokens(msgOf(r).body)))
          /\ taskOf(r).args = Tail(whiteTokens(msgOf(r).body))

\* the first entry of the prefix list, in configured order, that the body
\* starts with
firstMatch(body) ==
    LET I == {k \in 1..Len(prefixes) : startsWith(body, prefixes[k])}
    IN IF I = {} THEN NoPrefix
       ELSE prefixes[CHOOSE k \in I : \A j \in I : k <= j]

\* sock.readMessages has resolved and the task has run on from there
bodyParsed(t) == t.acked /\ t.pc \in {"meta", "exec", "notify", "done"} /\ t.log # "error"

\* C29: the prefix stripped from a body is the first entry of the prefix list
\* that the body starts with, whatever other entries match; the command is
\* read from what follows that entry; a body that starts with no entry gets
\* no command and no handler.
C29_FirstPrefixWins ==
    \A r \in TaskRefs :
       LET t == taskOf(r)
           body == msgOf(r).body
           rest == SubSeq(body, Len(firstMatch(body)) + 1, Len(body))
       IN bodyParsed(t) =>
             IF firstMatch(body) = NoPrefix
             THEN /\ t.pc = "done"
                  /\ t.command = <<>>
                  /\ t.handler = NoHandler
                  /\ execsOf(msgOf(r).id) = {}
             ELSE /\ t.prefix = firstMatch(body)
                  /\ t.command = toLowerCase(Head(splitSpaces(trim(rest))))

\* the list is "!!", "!" and the body starts with both: "!!" was stripped and
\* the handler of ig is running
C29_Witness ==
    \E r \in TaskRefs :
       /\ prefixes = << <<"!", "!">>, <<"!">> >>
       /\ startsWith(msgOf(r).body, <<"!">>)
       /\ taskOf(r).prefix = <<"!", "!">>
       /\ taskOf(r).command = <<"i", "g">>
       /\ taskOf(r).pc = "exec"

\* C30: while the dispatch of a command from a group awaits the group
\* metadata from the transport (sock.groupMetadata), the groupCache does not
\* hold that group: a cached group is not fetched.
C30_CachedNoFetch ==
    \A r \in TaskRefs :
       taskOf(r).pc = "meta" => msgOf(r).from \notin groupCache

\* C31: when the callback of a flush has returned, a connection update the
\* flush carried has been passed to handleConnectionUpdate, whatever else the
\* flush carried.
C31_ConnAlwaysHandled ==
    \A b \in 1..Len(batches) :
        (batches[b].pc = "end" /\ batches[b].conn # "none") => batches[b].conn = "handled"

\* C32: when the process has terminated after an authentication-invalidated
\* close whose removeCreds deleted every file it listed, the session folder
\* is empty.
C32_StoreEmptyAtExit ==
    (exited = "auth" /\ \E k \in 1..Len(removals) : removals[k].pc = "removed")
        => sessionFiles = {}

\* C33: the mapping that is installed was built by the reload that started
\* last among the reloads that have completed: a swap never installs the
\* result of a reload that started before the one whose result it replaces.
C33_LastStartedWins == [][lastReload'.seq >= lastReload.seq]_vars

\* every change notification has been handled: no debounce timer is pending,
\* no loadCommands call is running and no file name is held back
watcherQuiet == reloadsIdle /\ processingFiles = {}

\* C34: once every notification of the changes made has been handled and the
\* last reload did not fail, the installed registry is the result of loading
\* the contents the commands directory has now: no change was left out.
C34_NoLostChange ==
    (edits > 0 /\ watcherQuiet /\ dirState = "ok" /\ ~lastReload.failed)
        => commands = loadAll(EmptyMap, listFiles(dirFiles), dirFiles)

\* sock.readMessages was called for the event and has rejected
ackFailed(t) == t.acked /\ t.log = "error" /\ t.command = <<>>

\* C35: for an event whose readMessages call has rejected the fault is logged
\* and the dispatch ends there: no handler is invoked, no metadata is fetched,
\* nothing is sent to the chat, the id is in the dedup cache until its TTL
\* expires, and every other delivery of the id handled within the TTL is
\* dropped as a duplicate.
C35_AckFailureSilent ==
    \A r \in TaskRefs :
       ackFailed(taskOf(r)) =>
          /\ taskOf(r).pc = "done"
          /\ taskOf(r).handler = NoHandler /\ taskOf(r).lookup = NoHandler
          /\ taskOf(r).errNotifs = 0
          /\ ~taskOf(r).raised
          /\ \A k \in 1..Len(execLog) : <<execLog[k].batch, execLog[k].index>> # r
          /\ msgOf(r).id \notin expired =>
                /\ msgOf(r).id \in processedMessagesCache
                /\ \A q \in deliveriesOf(msgOf(r).id) :
                      (q # r /\ taskOf(q).pc # "pending")
                         => (taskOf(q).log \in {"duplicate", "skipped"} /\ ~taskOf(q).acked)

\* readMessages rejected for the first delivery of B, and the delivery of B
\* in a later batch was dropped as a duplicate
C35_Witness ==
    \E r \in TaskRefs, q \in TaskRefs :
       /\ r[1] < q[1]
       /\ msgOf(r).id = "B" /\ msgOf(q).id = "B"
       /\ ackFailed(taskOf(r))
       /\ taskOf(q).log = "duplicate"
       /\ "B" \notin expired

\* C36: at most one setInterval store-snapshot timer is active.
C36_OneStoreTimer == storeIntervals <= 1

\* C37: no event of a messages.upsert whose type is not "notify" is handled:
\* it is not acknowledged, logged or routed to a handler, its id enters the
\* dedup cache only through a "notify" delivery, and a "notify" delivery is
\* dropped as a duplicate only because of another "notify" delivery.
C37_OnlyNotifyDispatched ==
    /\ \A r \in TaskRefs :
          batches[r[1]].type # "notify" =>
             /\ taskOf(r) = NewTask
             /\ \A k \in 1..Len(execLog) : execLog[k].batch # r[1]
    /\ \A id \in processedMessagesCache : \E r \in deliveriesOf(id) : taskOf(r).acked
    /\ \A r \in TaskRefs :
          taskOf(r).log = "duplicate" =>
             \E q \in deliveriesOf(msgOf(r).id) : q # r /\ taskOf(q).acked

\* B came in a batch of type "append" and was left alone; the "notify"
\* delivery of B in a later batch has reached its handler
C37_Witness ==
    \E b1 \in 1..Len(batches), b2 \in 1..Len(batches) :
       /\ b1 < b2
       /\ batches[b1].type = "append" /\ batches[b1].msgs[1].id = "B"
       /\ batches[b2].type = "notify" /\ batches[b2].msgs[1].id = "B"
       /\ batches[b2].tasks[1].acked
       /\ \E k \in 1..Len(execLog) : execLog[k].batch = b2 /\ execLog[k].id = "B"

\* C38: once the body "prefix followed by a key of the registry" was parsed,
\* the lookup has found the handler registered under that key, whatever the
\* case of the letters of the key.
C38_EveryKeyInvocable ==
    \A r \in TaskRefs :
       (msgOf(r).kind = "key" /\ bodyParsed(taskOf(r)))
          => taskOf(r).lookup = commands[msgOf(r).key]

====
